---- MODULE Spec2Model ----
(***************************************************************************)
(* A model of mosaic.py: the three collections PointCollection,            *)
(* LineSegmentCollection and ShapeCollection, their mutators, the closure  *)
(* validator and the line-oriented text format they write and read.        *)
(*                                                                         *)
(* Numbers.  A coordinate is a Python number: an int, or a float that is   *)
(* a multiple of one tenth.  [t |-> "int", v |-> n] is the int n and       *)
(* [t |-> "float", v |-> k] is the float k/10.  Python compares numbers by *)
(* value (12 == 12.0), which NumEq models.                                 *)
(*                                                                         *)
(* Text.  A line is a sequence of one-character strings, its "\n"          *)
(* included; a stream is the sequence of the lines not yet read.           *)
(***************************************************************************)
EXTENDS Integers, Sequences, FiniteSets

VARIABLES
    points,          \* PointCollection.points
    box,             \* PointCollection.box (None is NoneBox)
    segments,        \* LineSegmentCollection.segments
    triangles,       \* ShapeCollection.triangles
    quadrilaterals,  \* ShapeCollection.quadrilaterals
    file,            \* the open text stream: the lines not yet read
    last,            \* the last call: its name, arguments, outcome, and the state before it
    orig             \* history: the collections the run started with

vars == <<points, box, segments, triangles, quadrilaterals, file, last, orig>>

----------------------------------------------------------------------------
(* Bounds of the model. *)

\* most elements the point and segment collections hold together
MaxItems == 3
\* most records in a stream handed to a reader
MaxFileRecs == 2
\* most shapes the shape collection holds
MaxShapes == 2
\* most points, segments, and shapes of each kind in a mesh that is written and read back
MaxMesh == 2
\* most lines between the header and the trailer of a stream handed to the shapes reader
MaxLines == 4

----------------------------------------------------------------------------
(* Python values. *)

I(n) == [t |-> "int", v |-> n]
F(k) == [t |-> "float", v |-> k]

\* the value of a number, in tenths
Val(c) == IF c.t = "int" THEN 10 * c.v ELSE c.v

NumEq(a, b) == Val(a) = Val(b)
NumLt(a, b) == Val(a) < Val(b)

\* tuple equality (x1, y1) == (x2, y2)
PointEq(p, q) == NumEq(p[1], q[1]) /\ NumEq(p[2], q[2])

RECURSIVE PointsEq(_, _)
\* list equality of two point lists
PointsEq(a, b) ==
    IF Len(a) # Len(b) THEN FALSE
    ELSE IF a = <<>> THEN TRUE
    ELSE PointEq(Head(a), Head(b)) /\ PointsEq(Tail(a), Tail(b))

NoneBox == <<>>

NoError == ""
IndexOutOfRange == "IndexError: Index out of range"
ListIndexOutOfRange == "IndexError: list index out of range"
EmptyCollection == "ValueError: No points in the collection"
UnclosedTriangle == "ValueError: Invalid triangle: segments do not form a closed shape"
UnclosedQuadrilateral == "ValueError: Invalid quadrilateral: segments do not form a closed shape"
MalformedHeaderPoints == "ValueError: File does not start with 'Mosaic Points:'"
MalformedHeaderSegments == "ValueError: File does not start with 'Mosaic Line Segments:'"
MalformedHeaderShapes == "ValueError: File does not start with 'Mosaic Shapes:'"
InvalidPointIndex == "ValueError: Invalid point index in line segment"
BadFloat == "ValueError: could not convert string to float"
BadInt == "ValueError: invalid literal for int() with base 10"
NotEnoughValues == "ValueError: not enough values to unpack"
TooManyValues == "ValueError: too many values to unpack"

\* the sequences of length at most n over S
SeqsUpTo(S, n) == UNION {[1..k -> S] : k \in 0..n}

----------------------------------------------------------------------------
(* Text: formatting. *)

DigitChars == <<"0", "1", "2", "3", "4", "5", "6", "7", "8", "9">>

Digit(d) == DigitChars[d + 1]

RECURSIVE NatStr(_)
\* the decimal digits of a natural number
NatStr(n) ==
    IF n < 10 THEN <<Digit(n)>>
    ELSE NatStr(n \div 10) \o <<Digit(n % 10)>>

\* str(n) of an int
IntStr(n) == IF n < 0 THEN <<"-">> \o NatStr(-n) ELSE NatStr(n)

\* a float x = k/10 formatted without its fraction
FloatStrNoFraction(k) ==
    LET a == IF k < 0 THEN -k ELSE k
    IN  (IF k < 0 THEN <<"-">> ELSE <<>>) \o NatStr(a \div 10)

\* repr(x) of a float x = k/10: the integer part, a point, one fractional digit
FloatStr(k) ==
    LET a == IF k < 0 THEN -k ELSE k
    IN  (IF k < 0 THEN <<"-">> ELSE <<>>)
            \o NatStr(a \div 10) \o <<".">> \o <<Digit(a % 10)>>

\* f"{c}" of a number
NumStr(c) == IF c.t = "int" THEN IntStr(c.v) ELSE FloatStr(c.v)

RECURSIVE JoinComma(_)
\* the fields joined by commas, then "\n"
JoinComma(fields) ==
    IF Len(fields) = 1 THEN Head(fields) \o <<"\n">>
    ELSE Head(fields) \o <<",">> \o JoinComma(Tail(fields))

HeaderPoints ==
    <<"M","o","s","a","i","c"," ","P","o","i","n","t","s",":","\n">>
TrailerPoints ==
    <<"E","n","d"," ","o","f"," ","p","o","i","n","t","s",".","\n">>
HeaderSegments ==
    <<"M","o","s","a","i","c"," ","L","i","n","e"," ","S","e","g","m","e","n","t","s",":","\n">>
TrailerSegments ==
    <<"E","n","d"," ","o","f"," ","l","i","n","e"," ","s","e","g","m","e","n","t","s",".","\n">>
HeaderShapes ==
    <<"M","o","s","a","i","c"," ","S","h","a","p","e","s",":","\n">>
SubHeaderTriangles ==
    <<"T","r","i","a","n","g","l","e","s",":","\n">>
SubHeaderQuadrilaterals ==
    <<"Q","u","a","d","r","i","l","a","t","e","r","a","l","s",":","\n">>
TrailerShapes ==
    <<"E","n","d"," ","o","f"," ","s","h","a","p","e","s",".","\n">>

----------------------------------------------------------------------------
(* Text: parsing. *)

Whitespace == {" ", "\n", "\t", "\r"}

RECURSIVE LStrip(_)
LStrip(s) ==
    IF s # <<>> /\ Head(s) \in Whitespace THEN LStrip(Tail(s)) ELSE s

RECURSIVE RStrip(_)
RStrip(s) ==
    IF s # <<>> /\ s[Len(s)] \in Whitespace THEN RStrip(SubSeq(s, 1, Len(s) - 1)) ELSE s

\* s.strip()
Strip(s) == RStrip(LStrip(s))

RECURSIVE SplitFrom(_, _)
\* s.split(','), with cur the field being collected
SplitFrom(s, cur) ==
    IF s = <<>> THEN <<cur>>
    ELSE IF Head(s) = "," THEN <<cur>> \o SplitFrom(Tail(s), <<>>)
    ELSE SplitFrom(Tail(s), Append(cur, Head(s)))

Split(s) == SplitFrom(s, <<>>)

DigitValue(ch) == CHOOSE d \in 0..9 : DigitChars[d + 1] = ch

IsDigit(ch) == \E d \in 0..9 : DigitChars[d + 1] = ch

AllDigits(s) == s # <<>> /\ \A i \in 1..Len(s) : IsDigit(s[i])

RECURSIVE DigitsValue(_)
DigitsValue(s) ==
    IF s = <<>> THEN 0
    ELSE 10 * DigitsValue(SubSeq(s, 1, Len(s) - 1)) + DigitValue(s[Len(s)])

\* a sign, then the rest
Signed(s) ==
    IF s # <<>> /\ Head(s) = "-" THEN [neg |-> TRUE, body |-> Tail(s)]
    ELSE IF s # <<>> /\ Head(s) = "+" THEN [neg |-> FALSE, body |-> Tail(s)]
    ELSE [neg |-> FALSE, body |-> s]

\* int(s): surrounding whitespace, an optional sign, decimal digits
ParseInt(s) ==
    LET g == Signed(Strip(s))
    IN  IF AllDigits(g.body)
        THEN [ok |-> TRUE, v |-> IF g.neg THEN -DigitsValue(g.body) ELSE DigitsValue(g.body)]
        ELSE [ok |-> FALSE, v |-> 0]

\* the position of the first "." of s, or 0
DotAt(s) ==
    IF \E i \in 1..Len(s) : s[i] = "."
    THEN CHOOSE i \in 1..Len(s) : s[i] = "." /\ \A j \in 1..(i - 1) : s[j] # "."
    ELSE 0

\* float(s): surrounding whitespace, an optional sign, digits with an optional
\* fraction.  The result is a float in tenths; the texts read here carry at
\* most one fractional digit that is not a zero.
ParseFloat(s) ==
    LET g == Signed(Strip(s))
        d == DotAt(g.body)
        ip == IF d = 0 THEN g.body ELSE SubSeq(g.body, 1, d - 1)
        fp == IF d = 0 THEN <<>> ELSE SubSeq(g.body, d + 1, Len(g.body))
        wellFormed ==
            /\ ip # <<>> \/ fp # <<>>
            /\ \A i \in 1..Len(ip) : IsDigit(ip[i])
            /\ \A i \in 1..Len(fp) : IsDigit(fp[i])
            /\ \A i \in 2..Len(fp) : fp[i] = "0"
        mag == 10 * DigitsValue(ip) + (IF fp = <<>> THEN 0 ELSE DigitValue(fp[1]))
    IN  IF wellFormed
        THEN [ok |-> TRUE, v |-> IF g.neg THEN -mag ELSE mag]
        ELSE [ok |-> FALSE, v |-> 0]

----------------------------------------------------------------------------
(* The text format: writers. *)

\* the lines PointCollection.write_to_file writes
PointLines(pts) ==
    <<HeaderPoints>>
        \o [i \in 1..Len(pts) |-> JoinComma(<<NumStr(pts[i][1]), NumStr(pts[i][2])>>)]
        \o <<TrailerPoints>>

\* the lines LineSegmentCollection.write_to_file writes
SegmentLines(segs) ==
    <<HeaderSegments>>
        \o [i \in 1..Len(segs) |-> JoinComma(<<IntStr(segs[i][1]), IntStr(segs[i][2])>>)]
        \o <<TrailerSegments>>

\* one triangle or quadrilateral record: the segment indices, then r, g, b
ShapeLine(shape) ==
    LET k == Len(shape) - 1
        colour == shape[k + 1]
    IN  JoinComma([i \in 1..(k + 3) |->
            IF i <= k THEN IntStr(shape[i]) ELSE IntStr(colour[i - k])])

\* the lines ShapeCollection.write_to_file writes
ShapeLines(tris, quads) ==
    <<HeaderShapes, SubHeaderTriangles>>
        \o [i \in 1..Len(tris) |-> ShapeLine(tris[i])]
        \o <<SubHeaderQuadrilaterals>>
        \o [i \in 1..Len(quads) |-> ShapeLine(quads[i])]
        \o <<TrailerShapes>>

----------------------------------------------------------------------------
(* The text format: readers. *)

\* map(float, fields): each field's conversion, made as the unpacking asks for it
MapFloat(fields) == [i \in 1..Len(fields) |-> ParseFloat(fields[i])]

\* map(int, fields)
MapInt(fields) == [i \in 1..Len(fields) |-> ParseInt(fields[i])]

\* a, b, ... = map(...) for n targets: the fields are converted one by one as
\* the unpacking asks for them, at most n + 1 of them
Unpack(parsed, n, bad) ==
    LET m == Len(parsed)
        tried == 1..(IF m < n + 1 THEN m ELSE n + 1)
    IN  IF \E i \in tried : ~parsed[i].ok
        THEN [err |-> bad, vals |-> <<>>]
        ELSE IF m < n THEN [err |-> NotEnoughValues, vals |-> <<>>]
        ELSE IF m > n THEN [err |-> TooManyValues, vals |-> <<>>]
        ELSE [err |-> NoError, vals |-> [i \in 1..n |-> parsed[i].v]]

\* x, y = map(float, line.strip().split(','))
PointRecord(line) == Unpack(MapFloat(Split(Strip(line))), 2, BadFloat)

\* start_index, end_index = map(int, line.strip().split(','))
SegmentRecord(line) == Unpack(MapInt(Split(Strip(line))), 2, BadInt)

\* seg1, ..., segk, r, g, b = map(int, line.strip().split(','))
ShapeRecord(line, k) == Unpack(MapInt(Split(Strip(line))), k + 3, BadInt)

RECURSIVE PointLoop(_, _)
\* the loop of PointCollection.read_from_file over the lines left, acc the points so far
PointLoop(f, acc) ==
    IF f = <<>> THEN [points |-> acc, err |-> NoError, rest |-> <<>>]
    ELSE IF Head(f) = TrailerPoints THEN [points |-> acc, err |-> NoError, rest |-> Tail(f)]
    ELSE LET r == PointRecord(Head(f))
         IN  IF r.err # NoError THEN [points |-> acc, err |-> r.err, rest |-> Tail(f)]
             ELSE PointLoop(Tail(f), Append(acc, <<F(r.vals[1]), F(r.vals[2])>>))

\* read_from_file without the test of the first line
ReadPointsAnyHeader(f) ==
    IF f = <<>> THEN [points |-> <<>>, err |-> NoError, rest |-> <<>>]
    ELSE PointLoop(Tail(f), <<>>)

\* read_from_file raising when the stream ends before the trailer line
ReadPointsNeedsTrailer(f) ==
    IF f = <<>> THEN [points |-> <<>>, err |-> MalformedHeaderPoints, rest |-> <<>>]
    ELSE IF Head(f) # HeaderPoints
    THEN [points |-> <<>>, err |-> MalformedHeaderPoints, rest |-> Tail(f)]
    ELSE LET r == PointLoop(Tail(f), <<>>)
         IN  IF r.err = NoError /\ \A i \in 2..Len(f) : f[i] # TrailerPoints
             THEN [r EXCEPT !.err = "ValueError: missing 'End of points.'"]
             ELSE r

\* PointCollection.read_from_file: the points, the error raised, the lines left unread
ReadPoints(f) ==
    IF f = <<>> THEN [points |-> <<>>, err |-> MalformedHeaderPoints, rest |-> <<>>]
    ELSE IF Head(f) # HeaderPoints
    THEN [points |-> <<>>, err |-> MalformedHeaderPoints, rest |-> Tail(f)]
    ELSE PointLoop(Tail(f), <<>>)

\* the bounds test without its two comparisons with 0
IndexInvalidUpperOnly(start_index, end_index, n) ==
    start_index >= n \/ end_index >= n

\* the bounds test on the two indices of a segment record
IndexInvalid(start_index, end_index, n) ==
    start_index < 0 \/ start_index >= n \/ end_index < 0 \/ end_index >= n

RECURSIVE SegmentLoop(_, _, _)
\* the loop of LineSegmentCollection.read_from_file, n the length of the points list
SegmentLoop(f, n, acc) ==
    IF f = <<>> THEN [segments |-> acc, err |-> NoError, rest |-> <<>>]
    ELSE IF Head(f) = TrailerSegments
    THEN [segments |-> acc, err |-> NoError, rest |-> Tail(f)]
    ELSE LET r == SegmentRecord(Head(f))
         IN  IF r.err # NoError THEN [segments |-> acc, err |-> r.err, rest |-> Tail(f)]
             ELSE IF IndexInvalid(r.vals[1], r.vals[2], n)
             THEN [segments |-> acc, err |-> InvalidPointIndex, rest |-> Tail(f)]
             ELSE SegmentLoop(Tail(f), n, Append(acc, <<r.vals[1], r.vals[2]>>))

\* LineSegmentCollection.read_from_file
ReadSegments(f, n) ==
    IF f = <<>> THEN [segments |-> <<>>, err |-> MalformedHeaderSegments, rest |-> <<>>]
    ELSE IF Head(f) # HeaderSegments
    THEN [segments |-> <<>>, err |-> MalformedHeaderSegments, rest |-> Tail(f)]
    ELSE SegmentLoop(Tail(f), n, <<>>)

RECURSIVE ShapeLoop(_, _, _, _)
\* the loop of ShapeCollection.read_from_file; section is "None", "Triangles"
\* or "Quadrilaterals"
ShapeLoop(f, section, tris, quads) ==
    IF f = <<>>
    THEN [triangles |-> tris, quadrilaterals |-> quads, err |-> NoError, rest |-> <<>>]
    ELSE IF Head(f) = TrailerShapes
    THEN [triangles |-> tris, quadrilaterals |-> quads, err |-> NoError, rest |-> Tail(f)]
    ELSE IF Head(f) = SubHeaderTriangles THEN ShapeLoop(Tail(f), "Triangles", tris, quads)
    ELSE IF Head(f) = SubHeaderQuadrilaterals
    THEN ShapeLoop(Tail(f), "Quadrilaterals", tris, quads)
    ELSE IF section = "Triangles"
    THEN LET r == ShapeRecord(Head(f), 3)
         IN  IF r.err # NoError
             THEN [triangles |-> tris, quadrilaterals |-> quads, err |-> r.err,
                   rest |-> Tail(f)]
             ELSE ShapeLoop(Tail(f), section,
                      Append(tris, <<r.vals[1], r.vals[2], r.vals[3],
                                     <<r.vals[4], r.vals[5], r.vals[6]>>>>),
                      quads)
    ELSE IF section = "Quadrilaterals"
    THEN LET r == ShapeRecord(Head(f), 4)
         IN  IF r.err # NoError
             THEN [triangles |-> tris, quadrilaterals |-> quads, err |-> r.err,
                   rest |-> Tail(f)]
             ELSE ShapeLoop(Tail(f), section, tris,
                      Append(quads, <<r.vals[1], r.vals[2], r.vals[3], r.vals[4],
                                      <<r.vals[5], r.vals[6], r.vals[7]>>>>))
    ELSE ShapeLoop(Tail(f), section, tris, quads)

\* read_from_file with the triangles as the section to start in
ReadShapesFromTriangles(f) ==
    IF f = <<>>
    THEN [triangles |-> <<>>, quadrilaterals |-> <<>>, err |-> MalformedHeaderShapes,
          rest |-> <<>>]
    ELSE IF Head(f) # HeaderShapes
    THEN [triangles |-> <<>>, quadrilaterals |-> <<>>, err |-> MalformedHeaderShapes,
          rest |-> Tail(f)]
    ELSE ShapeLoop(Tail(f), "Triangles", <<>>, <<>>)

\* ShapeCollection.read_from_file
ReadShapes(f) ==
    IF f = <<>>
    THEN [triangles |-> <<>>, quadrilaterals |-> <<>>, err |-> MalformedHeaderShapes,
          rest |-> <<>>]
    ELSE IF Head(f) # HeaderShapes
    THEN [triangles |-> <<>>, quadrilaterals |-> <<>>, err |-> MalformedHeaderShapes,
          rest |-> Tail(f)]
    ELSE ShapeLoop(Tail(f), "None", <<>>, <<>>)

----------------------------------------------------------------------------
(* List operations. *)

\* index < len(list), the lower bound forgotten
InRangeNoLower(index, n) == index < n

\* 0 <= index < len(list)
InRange(index, n) == 0 <= index /\ index < n

\* list.pop(), the index forgotten
ListPopLast(s, index) == SubSeq(s, 1, Len(s) - 1)

\* list.pop(index) on a list that has the index: a negative index counts from the end
ListPop(s, index) ==
    LET i == IF index < 0 THEN index + Len(s) ELSE index
    IN  SubSeq(s, 1, i) \o SubSeq(s, i + 2, Len(s))

\* list[index]: a negative index counts from the end
Resolves(index, n) == -n <= index /\ index < n

ListGet(s, index) == IF index < 0 THEN s[index + Len(s) + 1] ELSE s[index + 1]

\* the comprehension keeping a point only when both of its coordinates differ
PointsWithoutEitherCoordinate(pts, x, y) ==
    LET Keep(p) == ~NumEq(p[1], x) /\ ~NumEq(p[2], y)
    IN  SelectSeq(pts, Keep)

\* [point for point in self.points if point != (x, y)]
PointsWithout(pts, x, y) ==
    LET Keep(p) == ~PointEq(p, <<x, y>>)
    IN  SelectSeq(pts, Keep)

\* [seg for seg in self.segments if seg != (start_index, end_index)]
SegmentsWithout(segs, start_index, end_index) ==
    LET Keep(seg) == seg # <<start_index, end_index>>
    IN  SelectSeq(segs, Keep)

RECURSIVE BoxLoop(_, _)
\* the min/max loop of get_bounding_rectangle: b is (x_min, y_min, x_max, y_max) so far
BoxLoop(pts, b) ==
    IF pts = <<>> THEN b
    ELSE LET x == Head(pts)[1]
             y == Head(pts)[2]
         IN  BoxLoop(Tail(pts),
                 << IF NumLt(x, b[1]) THEN x ELSE b[1],
                    IF NumLt(y, b[2]) THEN y ELSE b[2],
                    IF NumLt(b[3], x) THEN x ELSE b[3],
                    IF NumLt(b[4], y) THEN y ELSE b[4] >>)

\* the rectangle get_bounding_rectangle computes for a list that is not empty
ComputeBox(pts) == BoxLoop(pts, <<pts[1][1], pts[1][2], pts[1][1], pts[1][2]>>)

----------------------------------------------------------------------------
(* The record of the last call. *)

Pre ==
    [points |-> points, box |-> box, segments |-> segments,
     triangles |-> triangles, quadrilaterals |-> quadrilaterals, file |-> file]

Call(op, args, err, ret) ==
    [op |-> op, args |-> args, err |-> err, ret |-> ret, pre |-> Pre]

NoCall ==
    [op |-> "init", args |-> <<>>, err |-> NoError, ret |-> <<>>,
     pre |-> [points |-> <<>>, box |-> NoneBox, segments |-> <<>>,
              triangles |-> <<>>, quadrilaterals |-> <<>>, file |-> <<>>]]

----------------------------------------------------------------------------
(* PointCollection. *)

add_point(x, y) ==
    /\ Len(points) + Len(segments) < MaxItems
    /\ points' = Append(points, <<x, y>>)
    /\ box' = NoneBox
    /\ last' = Call("add_point", <<x, y>>, NoError, <<>>)
    /\ UNCHANGED <<segments, triangles, quadrilaterals, file, orig>>

\* remove_point without the assignment to self.box
remove_point_keeps_box(x, y) ==
    /\ points' = PointsWithout(points, x, y)
    /\ last' = Call("remove_point", <<x, y>>, NoError, <<>>)
    /\ UNCHANGED <<box, segments, triangles, quadrilaterals, file, orig>>

remove_point(x, y) ==
    /\ points' = PointsWithout(points, x, y)
    /\ box' = NoneBox
    /\ last' = Call("remove_point", <<x, y>>, NoError, <<>>)
    /\ UNCHANGED <<segments, triangles, quadrilaterals, file, orig>>

\* remove_point_by_index that also drops the segments on the point removed
remove_point_by_index_cascading(index) ==
    /\ IF InRange(index, Len(points))
       THEN /\ points' = ListPop(points, index)
            /\ box' = NoneBox
            /\ segments' = SelectSeq(segments, LAMBDA seg : seg[1] # index /\ seg[2] # index)
            /\ last' = Call("remove_point_by_index", <<index>>, NoError, <<>>)
       ELSE /\ last' = Call("remove_point_by_index", <<index>>, IndexOutOfRange, <<>>)
            /\ UNCHANGED <<points, box, segments>>
    /\ UNCHANGED <<triangles, quadrilaterals, file, orig>>

remove_point_by_index(index) ==
    /\ IF InRange(index, Len(points))
       THEN /\ points' = ListPop(points, index)
            /\ box' = NoneBox
            /\ last' = Call("remove_point_by_index", <<index>>, NoError, <<>>)
       ELSE /\ last' = Call("remove_point_by_index", <<index>>, IndexOutOfRange, <<>>)
            /\ UNCHANGED <<points, box>>
    /\ UNCHANGED <<segments, triangles, quadrilaterals, file, orig>>

\* the error get_bounding_rectangle raises with cache b and points pts
BoundingError(b, pts) ==
    IF b # NoneBox THEN NoError
    ELSE IF pts = <<>> THEN EmptyCollection
    ELSE NoError

get_bounding_rectangle ==
    /\ IF box # NoneBox
       THEN /\ last' = Call("get_bounding_rectangle", <<>>, BoundingError(box, points), box)
            /\ UNCHANGED box
       ELSE IF BoundingError(box, points) # NoError
       THEN /\ last' = Call("get_bounding_rectangle", <<>>, BoundingError(box, points), <<>>)
            /\ UNCHANGED box
       ELSE /\ box' = ComputeBox(points)
            /\ last' = Call("get_bounding_rectangle", <<>>, NoError, ComputeBox(points))
    /\ UNCHANGED <<points, segments, triangles, quadrilaterals, file, orig>>

\* write_to_file on a stream open for writing: the lines go to its end
PointCollection_write_to_file ==
    /\ file' = file \o PointLines(points)
    /\ last' = Call("PointCollection.write_to_file", <<>>, NoError, <<>>)
    /\ UNCHANGED <<points, box, segments, triangles, quadrilaterals, orig>>

\* read_from_file without the assignment to self.box
PointCollection_read_keeps_box(f) ==
    LET r == ReadPoints(f)
    IN  /\ points' = r.points
        /\ file' = r.rest
        /\ last' = Call("PointCollection.read_from_file", <<f>>, r.err, <<>>)
        /\ UNCHANGED <<box, segments, triangles, quadrilaterals, orig>>

\* read_from_file on the stream f
PointCollection_read_from_file(f) ==
    LET r == ReadPoints(f)
    IN  /\ points' = r.points
        /\ box' = NoneBox
        /\ file' = r.rest
        /\ last' = Call("PointCollection.read_from_file", <<f>>, r.err, <<>>)
        /\ UNCHANGED <<segments, triangles, quadrilaterals, orig>>

----------------------------------------------------------------------------
(* LineSegmentCollection. *)

add_segment(start_index, end_index) ==
    /\ Len(points) + Len(segments) < MaxItems
    /\ segments' = Append(segments, <<start_index, end_index>>)
    /\ last' = Call("add_segment", <<start_index, end_index>>, NoError, <<>>)
    /\ UNCHANGED <<points, box, triangles, quadrilaterals, file, orig>>

remove_segment(start_index, end_index) ==
    /\ segments' = SegmentsWithout(segments, start_index, end_index)
    /\ last' = Call("remove_segment", <<start_index, end_index>>, NoError, <<>>)
    /\ UNCHANGED <<points, box, triangles, quadrilaterals, file, orig>>

remove_segment_by_index(index) ==
    /\ IF InRange(index, Len(segments))
       THEN /\ segments' = ListPop(segments, index)
            /\ last' = Call("remove_segment_by_index", <<index>>, NoError, <<>>)
       ELSE /\ last' = Call("remove_segment_by_index", <<index>>, IndexOutOfRange, <<>>)
            /\ UNCHANGED segments
    /\ UNCHANGED <<points, box, triangles, quadrilaterals, file, orig>>

LineSegmentCollection_write_to_file ==
    /\ file' = file \o SegmentLines(segments)
    /\ last' = Call("LineSegmentCollection.write_to_file", <<>>, NoError, <<>>)
    /\ UNCHANGED <<points, box, segments, triangles, quadrilaterals, orig>>

\* read_from_file that replaces self.segments only when the read succeeds
LineSegmentCollection_read_atomic(f, pts) ==
    LET r == ReadSegments(f, Len(pts))
    IN  /\ segments' = IF r.err = NoError THEN r.segments ELSE segments
        /\ file' = r.rest
        /\ last' = Call("LineSegmentCollection.read_from_file", <<f, Len(pts)>>, r.err, <<>>)
        /\ UNCHANGED <<points, box, triangles, quadrilaterals, orig>>

\* read_from_file without the clearing of self.segments
LineSegmentCollection_read_appends(f, pts) ==
    LET r == ReadSegments(f, Len(pts))
    IN  /\ segments' = segments \o r.segments
        /\ file' = r.rest
        /\ last' = Call("LineSegmentCollection.read_from_file", <<f, Len(pts)>>, r.err, <<>>)
        /\ UNCHANGED <<points, box, triangles, quadrilaterals, orig>>

\* read_from_file on the stream f, pts the list passed as points
LineSegmentCollection_read_from_file(f, pts) ==
    LET r == ReadSegments(f, Len(pts))
    IN  /\ segments' = r.segments
        /\ file' = r.rest
        /\ last' = Call("LineSegmentCollection.read_from_file", <<f, Len(pts)>>, r.err, <<>>)
        /\ UNCHANGED <<points, box, triangles, quadrilaterals, orig>>

----------------------------------------------------------------------------
(* ShapeCollection. *)

\* segment_list = [segments[i] for i in segment_indices] raises IndexError
LookupRaises(segment_indices, segs) ==
    \E i \in 1..Len(segment_indices) : ~Resolves(segment_indices[i], Len(segs))

\* a search for successors in place of the loop: every segment ends where
\* some segment of the list starts
ClosedUnordered(segment_list) ==
    \A i \in 1..Len(segment_list) :
        \E j \in 1..Len(segment_list) : segment_list[i][2] = segment_list[j][1]

\* the loop of _validate_shape started at the second segment
ClosedSkipFirst(segment_list) ==
    LET k == Len(segment_list)
    IN  \A i \in 2..k : segment_list[i][2] = segment_list[(i % k) + 1][1]

\* the loop of _validate_shape without the wrap-around to the first segment
ClosedNoWrap(segment_list) ==
    \A i \in 1..(Len(segment_list) - 1) : segment_list[i][2] = segment_list[i + 1][1]

\* the loop of _validate_shape over the segments looked up
Closed(segment_list) ==
    LET k == Len(segment_list)
    IN  \A i \in 1..k : segment_list[i][2] = segment_list[(i % k) + 1][1]

\* _validate_shape, for indices that all resolve
validate_shape(segment_indices, segs) ==
    Closed([i \in 1..Len(segment_indices) |-> ListGet(segs, segment_indices[i])])

\* add_triangle, segs the list passed as segments
add_triangle(seg1_index, seg2_index, seg3_index, segs, colour) ==
    LET idx == <<seg1_index, seg2_index, seg3_index>>
        args == <<seg1_index, seg2_index, seg3_index, colour>>
    IN  /\ Len(triangles) + Len(quadrilaterals) < MaxShapes
        /\ IF LookupRaises(idx, segs)
           THEN /\ last' = Call("add_triangle", args, ListIndexOutOfRange, <<>>)
                /\ UNCHANGED triangles
           ELSE IF ~validate_shape(idx, segs)
           THEN /\ last' = Call("add_triangle", args, UnclosedTriangle, <<>>)
                /\ UNCHANGED triangles
           ELSE /\ triangles' = Append(triangles, args)
                /\ last' = Call("add_triangle", args, NoError, <<>>)
        /\ UNCHANGED <<points, box, segments, quadrilaterals, file, orig>>

\* add_quadrilateral, segs the list passed as segments
add_quadrilateral(seg1_index, seg2_index, seg3_index, seg4_index, segs, colour) ==
    LET idx == <<seg1_index, seg2_index, seg3_index, seg4_index>>
        args == <<seg1_index, seg2_index, seg3_index, seg4_index, colour>>
    IN  /\ Len(triangles) + Len(quadrilaterals) < MaxShapes
        /\ IF LookupRaises(idx, segs)
           THEN /\ last' = Call("add_quadrilateral", args, ListIndexOutOfRange, <<>>)
                /\ UNCHANGED quadrilaterals
           ELSE IF ~validate_shape(idx, segs)
           THEN /\ last' = Call("add_quadrilateral", args, UnclosedQuadrilateral, <<>>)
                /\ UNCHANGED quadrilaterals
           ELSE /\ quadrilaterals' = Append(quadrilaterals, args)
                /\ last' = Call("add_quadrilateral", args, NoError, <<>>)
        /\ UNCHANGED <<points, box, segments, triangles, file, orig>>

ShapeCollection_write_to_file ==
    /\ file' = file \o ShapeLines(triangles, quadrilaterals)
    /\ last' = Call("ShapeCollection.write_to_file", <<>>, NoError, <<>>)
    /\ UNCHANGED <<points, box, segments, triangles, quadrilaterals, orig>>

\* read_from_file on the stream f; the segments argument is never used
ShapeCollection_read_from_file(f) ==
    LET r == ReadShapes(f)
    IN  /\ triangles' = r.triangles
        /\ quadrilaterals' = r.quadrilaterals
        /\ file' = r.rest
        /\ last' = Call("ShapeCollection.read_from_file", <<f>>, r.err, <<>>)
        /\ UNCHANGED <<points, box, segments, orig>>

---------------------------------------------------------------------------------------------------------------------------------------------------
(* Inputs. *)

\* arguments of add_point: points the program adds, one with a negative and a
\* fractional coordinate, one with an int coordinate
PointPool == { <<F(100), F(200)>>, <<F(-15), F(600)>>, <<F(80), I(12)>> }

\* arguments of remove_point: the points above, (8.0, 12.0), equal to (8.0, 12),
\* and (10.0, 60.0), which shares one coordinate with two of them and equals none
RemovePool == PointPool \cup { <<F(80), F(120)>>, <<F(100), F(600)>> }

\* arguments of add_segment and remove_segment
SegmentPool == { <<0, 1>>, <<1, 0>> }

\* arguments of the removals by index: below, inside and above every list's range
IndexPool == -1..MaxItems

\* streams handed to PointCollection.read_from_file: sections as written
PointFiles ==
    { PointLines(<<>>),
      PointLines(<< <<F(-15), F(600)>> >>),
      PointLines(<< <<F(80), I(12)>>, <<F(-15), F(600)>> >>) }

NoMesh == [points |-> <<>>, segments |-> <<>>, triangles |-> <<>>, quadrilaterals |-> <<>>]

----------------------------------------------------------------------------
(* The point and segment collections under every sequence of calls. *)

StoreInit ==
    /\ points = <<>>
    /\ box = NoneBox
    /\ segments = <<>>
    /\ triangles = <<>>
    /\ quadrilaterals = <<>>
    /\ file = <<>>
    /\ last = NoCall
    /\ orig = NoMesh

StoreNext ==
    \/ \E p \in PointPool : add_point(p[1], p[2])
    \/ \E p \in RemovePool : remove_point(p[1], p[2])
    \/ \E index \in IndexPool : remove_point_by_index(index)
    \/ get_bounding_rectangle
    \/ \E f \in PointFiles : PointCollection_read_from_file(f)
    \/ \E seg \in SegmentPool : add_segment(seg[1], seg[2])
    \/ \E seg \in SegmentPool : remove_segment(seg[1], seg[2])
    \/ \E index \in IndexPool : remove_segment_by_index(index)

StoreSpec == StoreInit /\ [][StoreNext]_vars

----------------------------------------------------------------------------
(* The shape collection over fixed lists of segments.  No caller in the     *)
(* program handles an exception of add_triangle or add_quadrilateral: a    *)
(* run ends with the first call that raises.                               *)

\* the quadrilateral 0-1-2-3; its first three segments do not close
QuadSegments == << <<0, 1>>, <<1, 2>>, <<2, 3>>, <<3, 0>> >>

\* the triangle 0-1-2
TriSegments == << <<0, 1>>, <<1, 2>>, <<2, 0>> >>

\* the quadrilateral 0-1-2-3, its segments stored out of cycle order
ScrambledSegments == << <<2, 3>>, <<0, 1>>, <<3, 0>>, <<1, 2>> >>

\* the segment lists passed as segments
SegmentLists ==
    { SubSeq(QuadSegments, 1, n) : n \in 0..Len(QuadSegments) }
        \cup { TriSegments, ScrambledSegments }

\* segment indices given to add_triangle and add_quadrilateral for a list of n
\* segments: every index of the list, and indices on both sides of it
ShapeIndexPool(n) == (-1..n) \cup {-(n + 1)}

\* (r, g, b) of the red triangle and of the blue quadrilateral
Red == <<255, 0, 0>>
Blue == <<0, 0, 255>>

ShapeInit ==
    /\ points = <<>>
    /\ box = NoneBox
    /\ segments \in SegmentLists
    /\ triangles = <<>>
    /\ quadrilaterals = <<>>
    /\ file = <<>>
    /\ last = NoCall
    /\ orig = NoMesh

ShapeNext ==
    \/ /\ last.err = NoError
       /\ \E i1, i2, i3 \in ShapeIndexPool(Len(segments)) :
              add_triangle(i1, i2, i3, segments, Red)
    \/ /\ last.err = NoError
       /\ \E i1, i2, i3, i4 \in ShapeIndexPool(Len(segments)) :
              add_quadrilateral(i1, i2, i3, i4, segments, Blue)

ShapeSpec == ShapeInit /\ [][ShapeNext]_vars

----------------------------------------------------------------------------
(* The segment reader over streams that are well formed and streams that   *)
(* are not.  No caller in the program handles an exception of a reader: a  *)
(* run ends with the first call that raises.                               *)

\* the records of the streams: in range for two points or more, too large, negative
FileSegmentPool == { <<0, 1>>, <<5, 0>>, <<0, -1>> }

\* a line that is no record
JunkLine == <<"x", "\n">>

\* f with the line put in after its first k lines
InsertLine(f, k, line) == SubSeq(f, 1, k) \o <<line>> \o SubSeq(f, k + 1, Len(f))

\* streams handed to LineSegmentCollection.read_from_file: sections as
\* written, the same with a line that is no record after the header or before
\* the trailer, and the same without the header
SegmentFiles ==
    LET written == { SegmentLines(segs) : segs \in SeqsUpTo(FileSegmentPool, MaxFileRecs) }
    IN  written
            \cup { InsertLine(f, 1, JunkLine) : f \in written }
            \cup { InsertLine(f, Len(f) - 1, JunkLine) : f \in written }
            \cup { Tail(f) : f \in written }

\* the list passed as points: only its length is used
PointLists == { [i \in 1..n |-> <<F(100), F(200)>>] : n \in 0..MaxItems }

ReadInit ==
    /\ points \in PointLists
    /\ box = NoneBox
    /\ segments \in { <<>>, << <<2, 2>> >> }
    /\ triangles = <<>>
    /\ quadrilaterals = <<>>
    /\ file = <<>>
    /\ last = NoCall
    /\ orig = NoMesh

ReadNext ==
    \/ /\ last.err = NoError
       /\ \E f \in SegmentFiles : LineSegmentCollection_read_from_file(f, points)

ReadSpec == ReadInit /\ [][ReadNext]_vars

----------------------------------------------------------------------------
(* A point collection written to a stream and read back from it. *)

TripInit ==
    /\ points \in SeqsUpTo(PointPool, MaxItems)
    /\ box = NoneBox
    /\ segments = <<>>
    /\ triangles = <<>>
    /\ quadrilaterals = <<>>
    /\ file = <<>>
    /\ last = NoCall
    /\ orig = [NoMesh EXCEPT !.points = points]

TripWrite ==
    /\ last.op = "init"
    /\ PointCollection_write_to_file

TripRead ==
    /\ last.op = "PointCollection.write_to_file"
    /\ PointCollection_read_from_file(file)

TripNext == TripWrite \/ TripRead

TripSpec == TripInit /\ [][TripNext]_vars

----------------------------------------------------------------------------
(* A mesh written to one stream, points, then segments, then shapes, and    *)
(* read back in that order, possibly after a change to the collections.    *)

\* the meshes: points, segments between the first and the last point, shapes
\* over the first and the last segment
MeshPointPool == { <<F(-15), F(600)>>, <<F(80), I(12)>> }

MeshSegmentLists(n) ==
    IF n = 0 THEN { <<>> }
    ELSE SeqsUpTo({ <<0, n - 1>>, <<n - 1, 0>> }, MaxMesh)

MeshTriangleLists(m) ==
    IF m = 0 THEN { <<>> }
    ELSE SeqsUpTo({ <<0, m - 1, 0, Red>> }, MaxMesh)

MeshQuadrilateralLists(m) ==
    IF m = 0 THEN { <<>> }
    ELSE SeqsUpTo({ <<m - 1, 0, 0, m - 1, Blue>> }, MaxMesh)

MeshInit ==
    /\ points \in SeqsUpTo(MeshPointPool, MaxMesh)
    /\ box = NoneBox
    /\ segments \in MeshSegmentLists(Len(points))
    /\ triangles \in MeshTriangleLists(Len(segments))
    /\ quadrilaterals \in MeshQuadrilateralLists(Len(segments))
    /\ file = <<>>
    /\ last = NoCall
    /\ orig = [points |-> points, segments |-> segments,
               triangles |-> triangles, quadrilaterals |-> quadrilaterals]

MeshWritePoints ==
    /\ last.op = "init"
    /\ PointCollection_write_to_file

MeshWriteSegments ==
    /\ last.op = "PointCollection.write_to_file"
    /\ LineSegmentCollection_write_to_file

MeshWriteShapes ==
    /\ last.op = "LineSegmentCollection.write_to_file"
    /\ ShapeCollection_write_to_file

\* one change to the collections between the writing and the reading
MeshChange ==
    /\ last.op = "ShapeCollection.write_to_file"
    /\ \/ remove_point_by_index(0)
       \/ add_point(F(100), F(200))
       \/ remove_segment_by_index(0)

MeshReadPoints ==
    /\ last.op \in {"ShapeCollection.write_to_file", "remove_point_by_index",
                    "add_point", "remove_segment_by_index"}
    /\ last.err = NoError
    /\ PointCollection_read_from_file(file)

MeshReadSegments ==
    /\ last.op = "PointCollection.read_from_file"
    /\ last.err = NoError
    /\ LineSegmentCollection_read_from_file(file, points)

MeshReadShapes ==
    /\ last.op = "LineSegmentCollection.read_from_file"
    /\ last.err = NoError
    /\ ShapeCollection_read_from_file(file)

MeshNext ==
    \/ MeshWritePoints
    \/ MeshWriteSegments
    \/ MeshWriteShapes
    \/ MeshChange
    \/ MeshReadPoints
    \/ MeshReadSegments
    \/ MeshReadShapes

MeshSpec == MeshInit /\ [][MeshNext]_vars

----------------------------------------------------------------------------
(* The point and segment collections of a mesh that has shapes, under       *)
(* every sequence of calls, the two readers included.                       *)

\* streams handed to LineSegmentCollection.read_from_file: sections as written
FrameSegmentFiles == { SegmentLines(<<>>), SegmentLines(<< <<1, 0>> >>) }

\* the segments of the triangle 0-1-2, and one from point 1 back to point 0
FrameSegments == TriSegments \o << <<1, 0>> >>

\* the empty mesh, and the mesh of three points, these segments, the triangle
\* 0-1-2 and the quadrilateral that runs twice between the points 0 and 1
FrameInit ==
    /\ \/ /\ points = <<>>
          /\ segments = <<>>
          /\ triangles = <<>>
          /\ quadrilaterals = <<>>
       \/ /\ points = << <<F(100), F(200)>>, <<F(-15), F(600)>>, <<F(80), I(12)>> >>
          /\ segments = FrameSegments
          /\ triangles = << <<0, 1, 2, Red>> >>
          /\ quadrilaterals = << <<0, 3, 0, 3, Blue>> >>
    /\ box = NoneBox
    /\ file = <<>>
    /\ last = NoCall
    /\ orig = NoMesh

FrameNext ==
    \/ \E p \in PointPool : add_point(p[1], p[2])
    \/ \E p \in RemovePool : remove_point(p[1], p[2])
    \/ \E index \in IndexPool : remove_point_by_index(index)
    \/ \E f \in PointFiles : PointCollection_read_from_file(f)
    \/ \E seg \in SegmentPool : add_segment(seg[1], seg[2])
    \/ \E seg \in SegmentPool : remove_segment(seg[1], seg[2])
    \/ \E index \in IndexPool : remove_segment_by_index(index)
    \/ \E f \in FrameSegmentFiles : LineSegmentCollection_read_from_file(f, points)

FrameSpec == FrameInit /\ [][FrameNext]_vars

----------------------------------------------------------------------------
(* The points reader over sections with and without the trailer line. *)

\* s without its last element
Front(s) == SubSeq(s, 1, Len(s) - 1)

\* streams handed to PointCollection.read_from_file: sections as written, and
\* the same cut off before the trailer line
TrailerFiles ==
    LET written == { PointLines(pts) : pts \in SeqsUpTo(PointPool, MaxFileRecs) }
    IN  written \cup { Front(f) : f \in written }

TrailerInit ==
    /\ points \in { <<>>, << <<F(100), F(200)>> >> }
    /\ box = NoneBox
    /\ segments = <<>>
    /\ triangles = <<>>
    /\ quadrilaterals = <<>>
    /\ file = <<>>
    /\ last = NoCall
    /\ orig = NoMesh

TrailerNext ==
    \/ /\ last.err = NoError
       /\ \E f \in TrailerFiles : PointCollection_read_from_file(f)

TrailerSpec == TrailerInit /\ [][TrailerNext]_vars

----------------------------------------------------------------------------
(* The shapes reader over streams whose lines come in any order.  The       *)
(* reader does not use the segments it is given.                            *)

\* a triangle and a quadrilateral over the first segments of QuadSegments: the
\* quadrilateral is closed, the triangle is not
FileTriangle == <<0, 1, 2, Red>>
FileQuadrilateral == <<0, 1, 2, 3, Blue>>

\* the lines between the header and the trailer: the two sub-headers, a
\* triangle record and a quadrilateral record
ShapeLinePool ==
    { SubHeaderTriangles, SubHeaderQuadrilaterals,
      ShapeLine(FileTriangle), ShapeLine(FileQuadrilateral) }

\* streams handed to ShapeCollection.read_from_file
ShapeFiles ==
    { <<HeaderShapes>> \o body \o <<TrailerShapes>> : body \in SeqsUpTo(ShapeLinePool, MaxLines) }

SectionInit ==
    /\ points = <<>>
    /\ box = NoneBox
    /\ segments \in { <<>>, SubSeq(QuadSegments, 1, 3) }
    /\ triangles \in { <<>>, << <<2, 1, 0, Blue>> >> }
    /\ quadrilaterals \in { <<>>, << <<3, 2, 1, 0, Red>> >> }
    /\ file = <<>>
    /\ last = NoCall
    /\ orig = NoMesh

SectionNext ==
    \/ /\ last.op = "init"
       /\ \E f \in ShapeFiles : ShapeCollection_read_from_file(f)

SectionSpec == SectionInit /\ [][SectionNext]_vars

----------------------------------------------------------------------------
(* One call of a reader, on a stream that is well formed or not, by         *)
(* collections that hold earlier contents.                                  *)

\* the contents of the sections the streams are made from
FailPointLists == SeqsUpTo(MeshPointPool, MaxFileRecs)

FailSegmentLists == SeqsUpTo(FileSegmentPool, MaxFileRecs)

FailTriangleLists == SeqsUpTo({FileTriangle}, MaxFileRecs)

FailQuadrilateralLists == SeqsUpTo({FileQuadrilateral}, 1)

\* a section as written, the same without its header, and the same with a
\* line that is no record after any of its lines but the last
Damaged(f) ==
    {f, Tail(f)} \cup { InsertLine(f, k, JunkLine) : k \in 1..(Len(f) - 1) }

FailPointFiles == UNION { Damaged(PointLines(pts)) : pts \in FailPointLists }

FailSegmentFiles == UNION { Damaged(SegmentLines(segs)) : segs \in FailSegmentLists }

FailShapeFiles ==
    UNION { Damaged(ShapeLines(tris, quads)) :
              tris \in FailTriangleLists, quads \in FailQuadrilateralLists }

FailInit ==
    /\ points \in { << <<F(100), F(200)>> >>,
                     << <<F(100), F(200)>>, <<F(-15), F(600)>>, <<F(80), I(12)>> >> }
    /\ box \in { NoneBox, ComputeBox(points) }
    /\ segments = << <<0, 0>> >>
    /\ triangles = << <<0, 0, 0, Blue>> >>
    /\ quadrilaterals = << <<0, 0, 0, 0, Red>> >>
    /\ file = <<>>
    /\ last = NoCall
    /\ orig = NoMesh

FailReadPoints ==
    /\ last.op = "init"
    /\ \E f \in FailPointFiles : PointCollection_read_from_file(f)

FailReadSegments ==
    /\ last.op = "init"
    /\ \E f \in FailSegmentFiles : LineSegmentCollection_read_from_file(f, points)

FailReadShapes ==
    /\ last.op = "init"
    /\ \E f \in FailShapeFiles : ShapeCollection_read_from_file(f)

FailNext == FailReadPoints \/ FailReadSegments \/ FailReadShapes

FailSpec == FailInit /\ [][FailNext]_vars

----------------------------------------------------------------------------
(* A mesh written to one stream and the three readers called on it in any   *)
(* order.  A run ends with the first reader that raises.                   *)

OrderInit == MeshInit

\* the stream is written, or a reader has returned
OrderReady ==
    /\ last.op \in {"ShapeCollection.write_to_file", "PointCollection.read_from_file",
                    "LineSegmentCollection.read_from_file",
                    "ShapeCollection.read_from_file"}
    /\ last.err = NoError

OrderReadPoints == OrderReady /\ PointCollection_read_from_file(file)

OrderReadSegments == OrderReady /\ LineSegmentCollection_read_from_file(file, points)

OrderReadShapes == OrderReady /\ ShapeCollection_read_from_file(file)

OrderNext ==
    \/ MeshWritePoints
    \/ MeshWriteSegments
    \/ MeshWriteShapes
    \/ OrderReadPoints
    \/ OrderReadSegments
    \/ OrderReadShapes

OrderSpec == OrderInit /\ [][OrderNext]_vars

----------------------------------------------------------------------------
(* Properties of the point and segment collections. *)

SetMin(S) == CHOOSE m \in S : \A x \in S : m <= x
SetMax(S) == CHOOSE m \in S : \A x \in S : x <= m

Xs(pts) == { Val(pts[i][1]) : i \in 1..Len(pts) }
Ys(pts) == { Val(pts[i][2]) : i \in 1..Len(pts) }

\* b is the rectangle (min x, min y, max x, max y) of the points pts
IsRectangleOf(b, pts) ==
    /\ pts # <<>>
    /\ Len(b) = 4
    /\ Val(b[1]) = SetMin(Xs(pts))
    /\ Val(b[2]) = SetMin(Ys(pts))
    /\ Val(b[3]) = SetMax(Xs(pts))
    /\ Val(b[4]) = SetMax(Ys(pts))

\* C2: whenever the cached rectangle is set it is the rectangle of the points
\* now in the collection, and a call of get_bounding_rectangle that succeeds
\* returns the rectangle of the points now in the collection.
C2_CacheNeverStale ==
    /\ box # NoneBox => IsRectangleOf(box, points)
    /\ (last.op = "get_bounding_rectangle" /\ last.err = NoError)
           => IsRectangleOf(last.ret, points)

\* a call answered from the cache, on a collection whose corners come from
\* different points
C2_Witness ==
    /\ last.op = "get_bounding_rectangle"
    /\ last.pre.box # NoneBox
    /\ last.ret = last.pre.box
    /\ Len(points) >= 2
    /\ \A i \in 1..Len(points) : <<points[i][1], points[i][2], points[i][1], points[i][2]>> # box

RECURSIVE RemoveFirstPoint(_, _)
\* pts without its first element equal to p
RemoveFirstPoint(pts, p) ==
    IF pts = <<>> THEN <<>>
    ELSE IF PointEq(Head(pts), p) THEN Tail(pts)
    ELSE <<Head(pts)>> \o RemoveFirstPoint(Tail(pts), p)

RECURSIVE RemoveFirstSegment(_, _)
\* segs without its first element equal to seg
RemoveFirstSegment(segs, seg) ==
    IF segs = <<>> THEN <<>>
    ELSE IF Head(segs) = seg THEN Tail(segs)
    ELSE <<Head(segs)>> \o RemoveFirstSegment(Tail(segs), seg)

\* C3: a removal by value removes only the first element equal to the value:
\* with at least one match the length drops by exactly one and the other
\* elements, later matches among them, stay in order.
C3_RemovesFirstMatchOnly ==
    /\ (/\ last.op = "remove_point"
        /\ \E i \in 1..Len(last.pre.points) :
               PointEq(last.pre.points[i], <<last.args[1], last.args[2]>>))
           => /\ Len(points) = Len(last.pre.points) - 1
              /\ points = RemoveFirstPoint(last.pre.points, <<last.args[1], last.args[2]>>)
    /\ (/\ last.op = "remove_segment"
        /\ \E i \in 1..Len(last.pre.segments) :
               last.pre.segments[i] = <<last.args[1], last.args[2]>>)
           => /\ Len(segments) = Len(last.pre.segments) - 1
              /\ segments = RemoveFirstSegment(last.pre.segments, <<last.args[1], last.args[2]>>)

\* C12: a removal by value of a value no element equals raises nothing and
\* leaves the sequence as it was: the same elements in the same order.
C12_RemoveAbsentValueKeepsAll ==
    /\ (/\ last.op = "remove_point"
        /\ \A i \in 1..Len(last.pre.points) :
               ~PointEq(last.pre.points[i], <<last.args[1], last.args[2]>>))
           => /\ last.err = NoError
              /\ points = last.pre.points
    /\ (/\ last.op = "remove_segment"
        /\ \A i \in 1..Len(last.pre.segments) :
               last.pre.segments[i] # <<last.args[1], last.args[2]>>)
           => /\ last.err = NoError
              /\ segments = last.pre.segments

\* (10.0, 60.0) removed from a collection that holds (10.0, 20.0) and (-1.5, 60.0)
C12_Witness ==
    /\ last.op = "remove_point"
    /\ <<last.args[1], last.args[2]>> = <<F(100), F(600)>>
    /\ Len(last.pre.points) = 2
    /\ last.pre.points[1] # last.pre.points[2]
    /\ \A i \in 1..2 : last.pre.points[i][1] = F(100) \/ last.pre.points[i][2] = F(600)
    /\ points = last.pre.points

PointCalls ==
    {"add_point", "remove_point", "remove_point_by_index", "PointCollection.read_from_file"}

SegmentCalls ==
    {"add_segment", "remove_segment", "remove_segment_by_index",
     "LineSegmentCollection.read_from_file"}

\* every segment of segs has both indices in [0, n)
NoDangling(segs, n) ==
    \A i \in 1..Len(segs) :
        /\ 0 <= segs[i][1] /\ segs[i][1] < n
        /\ 0 <= segs[i][2] /\ segs[i][2] < n

\* C17: a call that adds, removes or reads points leaves the segments and the
\* shapes as they were, whether it returns or raises, and a call that adds,
\* removes or reads segments leaves the shapes as they were.
C17_NoCascade ==
    /\ last.op \in PointCalls =>
           /\ segments = last.pre.segments
           /\ triangles = last.pre.triangles
           /\ quadrilaterals = last.pre.quadrilaterals
    /\ last.op \in SegmentCalls =>
           /\ triangles = last.pre.triangles
           /\ quadrilaterals = last.pre.quadrilaterals

\* a point removed from a mesh without dangling indices, leaving a segment
\* with an index that is no index of a point, under shapes that name the segment
C17_Witness ==
    /\ last.op \in {"remove_point", "remove_point_by_index"}
    /\ last.err = NoError
    /\ NoDangling(last.pre.segments, Len(last.pre.points))
    /\ \E i \in 1..Len(segments) : segments[i][1] >= Len(points) \/ segments[i][2] >= Len(points)
    /\ triangles # <<>>
    /\ quadrilaterals # <<>>

\* C7: a removal by index outside [0, length) fails with the index error and
\* leaves the sequence, and for points the cached rectangle, as it was.
C7_RemoveAtOutOfRangeFails ==
    /\ (/\ last.op = "remove_point_by_index"
        /\ ~(0 <= last.args[1] /\ last.args[1] < Len(last.pre.points)))
           => /\ last.err = IndexOutOfRange
              /\ points = last.pre.points
              /\ box = last.pre.box
    /\ (/\ last.op = "remove_segment_by_index"
        /\ ~(0 <= last.args[1] /\ last.args[1] < Len(last.pre.segments)))
           => /\ last.err = IndexOutOfRange
              /\ segments = last.pre.segments

\* a negative index given to a point collection that holds points and a cached rectangle
C7_Witness ==
    /\ last.op = "remove_point_by_index"
    /\ last.args[1] < 0
    /\ last.pre.points # <<>>
    /\ last.pre.box # NoneBox
    /\ last.err = IndexOutOfRange

\* after is before with the element at 0-based position i taken out
RemovedAt(before, after, i) ==
    /\ Len(after) = Len(before) - 1
    /\ \A j \in 1..Len(before) :
           /\ j - 1 < i => after[j] = before[j]
           /\ j - 1 > i => after[j - 1] = before[j]

\* C8: a removal by an index i in [0, length) succeeds, shortens the sequence
\* by one, keeps the elements before i and moves each later element down by one.
C8_RemoveAtShifts ==
    /\ (/\ last.op = "remove_point_by_index"
        /\ 0 <= last.args[1] /\ last.args[1] < Len(last.pre.points))
           => /\ last.err = NoError
              /\ RemovedAt(last.pre.points, points, last.args[1])
    /\ (/\ last.op = "remove_segment_by_index"
        /\ 0 <= last.args[1] /\ last.args[1] < Len(last.pre.segments))
           => /\ last.err = NoError
              /\ RemovedAt(last.pre.segments, segments, last.args[1])

\* index 1 removed from a collection of three different points
C8_Witness ==
    /\ last.op = "remove_point_by_index"
    /\ last.args[1] = 1
    /\ Len(last.pre.points) = 3
    /\ last.pre.points[2] # last.pre.points[3]
    /\ Len(points) = 2

\* C9: in every state with no points, get_bounding_rectangle raises the
\* empty-collection error, and a call made in such a state did raise it.
C9_EmptyCollectionFails ==
    /\ points = <<>> => BoundingError(box, points) = EmptyCollection
    /\ (last.op = "get_bounding_rectangle" /\ last.pre.points = <<>>)
           => last.err = EmptyCollection

\* a rectangle was cached and the last points were then removed
C9_Witness ==
    /\ points = <<>>
    /\ last.op \in {"remove_point", "remove_point_by_index"}
    /\ last.pre.box # NoneBox
    /\ last.pre.points # <<>>

----------------------------------------------------------------------------
(* Properties of the shape collection. *)

IsAdd == last.op \in {"add_triangle", "add_quadrilateral"}

\* the number of segment indices of the last add_triangle or add_quadrilateral
K == IF last.op = "add_triangle" THEN 3 ELSE 4

\* the list passed as segments to the last call
Passed == last.pre.segments

\* the segment the i-th index of the last call resolves to, i counted from 0
Seg(i) == ListGet(Passed, last.args[i + 1])

AllResolve == \A i \in 0..(K - 1) : Resolves(last.args[i + 1], Len(Passed))

\* segment[i].end == segment[(i+1) mod k].start for every i in [0, k)
Cycle == \A i \in 0..(K - 1) : Seg(i)[2] = Seg((i + 1) % K)[1]

ShapesUnchanged ==
    /\ triangles = last.pre.triangles
    /\ quadrilaterals = last.pre.quadrilaterals

\* the last call appended its shape to its own sequence and left the other alone
Appended ==
    IF last.op = "add_triangle"
    THEN /\ triangles = Append(last.pre.triangles, last.args)
         /\ quadrilaterals = last.pre.quadrilaterals
    ELSE /\ quadrilaterals = Append(last.pre.quadrilaterals, last.args)
         /\ triangles = last.pre.triangles

\* C1: for indices that resolve to segments, add_triangle and
\* add_quadrilateral append the shape exactly when each segment ends where
\* the next, cyclically, starts; otherwise the call raises the unclosed-shape
\* error and neither sequence changes.  A call either appends its shape or
\* changes nothing.
C1_AppendsIffClosed ==
    IsAdd =>
        /\ Appended \/ ShapesUnchanged
        /\ Appended => AllResolve
        /\ AllResolve =>
               /\ Appended <=> Cycle
               /\ ~Cycle =>
                      /\ last.err = (IF last.op = "add_triangle" THEN UnclosedTriangle
                                     ELSE UnclosedQuadrilateral)
                      /\ ShapesUnchanged

\* the three segments (0,1), (1,2), (2,3) refused as a triangle by a collection
\* that holds a quadrilateral accepted before
C1_Witness ==
    /\ last.op = "add_triangle"
    /\ last.args = <<0, 1, 2, Red>>
    /\ Passed = QuadSegments
    /\ last.err = UnclosedTriangle
    /\ quadrilaterals = << <<0, 1, 2, 3, Blue>> >>
    /\ triangles = <<>>

\* C10: add_triangle and add_quadrilateral fail and leave the collection as it
\* was whenever one of the segment indices is outside [0, len(segments)),
\* negative indices included.
C10_OutOfRangeIndexRejected ==
    (IsAdd /\ \E i \in 0..(K - 1) : ~(0 <= last.args[i + 1] /\ last.args[i + 1] < Len(Passed)))
        => /\ last.err # NoError
           /\ ShapesUnchanged

\* a further call on the shape collection is possible
ShapeCallPossible ==
    /\ last.err = NoError
    /\ Len(triangles) + Len(quadrilaterals) < MaxShapes

\* C14: the shape collection offers a removal by index within one variant's
\* sequence: whenever a call is possible, every index of the triangles can be
\* removed by one call that leaves the quadrilaterals alone, every index of the
\* quadrilaterals by one call that leaves the triangles alone, and a call with
\* an index outside the sequence raises the index error and changes neither.
C14_ShapeRemoveAtOffered ==
    ShapeCallPossible =>
        /\ \A i \in 0..(Len(triangles) - 1) :
               ENABLED (/\ ShapeNext
                        /\ triangles' = ListPop(triangles, i)
                        /\ quadrilaterals' = quadrilaterals)
        /\ \A i \in 0..(Len(quadrilaterals) - 1) :
               ENABLED (/\ ShapeNext
                        /\ quadrilaterals' = ListPop(quadrilaterals, i)
                        /\ triangles' = triangles)
        /\ ENABLED (/\ ShapeNext
                    /\ last'.err = IndexOutOfRange
                    /\ triangles' = triangles
                    /\ quadrilaterals' = quadrilaterals)

\* the segment indices of the last add_triangle or add_quadrilateral
Indices == [i \in 1..K |-> last.args[i]]

\* the list s started r places later, cyclically
Rotation(s, r) == [i \in 1..Len(s) |-> s[((i - 1 + r) % Len(s)) + 1]]

\* the orders of the indices of the last call in which each segment ends where
\* the next, cyclically, starts
CycleOrders ==
    { c \in [1..K -> { last.args[i] : i \in 1..K }] :
        /\ \A i, j \in 1..K : i # j => c[i] # c[j]
        /\ \A i \in 1..K :
               ListGet(Passed, c[i])[2] = ListGet(Passed, c[(i % K) + 1])[1] }

\* the indices of the last call name K different segments of the list that
\* form a directed cycle through K different points
SimpleCycle ==
    /\ \A i \in 1..K : 0 <= last.args[i] /\ last.args[i] < Len(Passed)
    /\ \A i, j \in 1..K : i # j =>
           /\ last.args[i] # last.args[j]
           /\ Seg(i - 1)[1] # Seg(j - 1)[1]
    /\ CycleOrders # {}

\* C11: closure is checked position by position: when the indices given to
\* add_triangle or add_quadrilateral name segments that form a simple directed
\* cycle over different points, in an order that is no cyclic rotation of the
\* cycle's order, the call raises the unclosed-shape error and appends nothing.
C11_ClosureIsPositional ==
    (/\ IsAdd
     /\ SimpleCycle
     /\ \A c \in CycleOrders : \A r \in 0..(K - 1) : Indices # Rotation(c, r))
        => /\ last.err = (IF last.op = "add_quadrilateral" THEN UnclosedQuadrilateral
                          ELSE UnclosedTriangle)
           /\ ShapesUnchanged

\* the segments (0,1), (2,3), (1,2), (3,0) refused as a quadrilateral
C11_Witness ==
    /\ last.op = "add_quadrilateral"
    /\ Passed = QuadSegments
    /\ last.args = <<0, 2, 1, 3, Blue>>
    /\ last.err = UnclosedQuadrilateral
    /\ ShapesUnchanged

\* the verdict of add_triangle or add_quadrilateral on the indices idx
Accepts(idx, segs) == ~LookupRaises(idx, segs) /\ validate_shape(idx, segs)

\* C20: the verdict does not depend on where the cycle is started: the last
\* call appended its shape exactly when a call with the same indices started
\* r places later, cyclically, is accepted, for every r.
C20_VerdictRotationInvariant ==
    IsAdd =>
        \A r \in 0..(K - 1) :
            (last.err = NoError /\ Appended) <=> Accepts(Rotation(Indices, r), Passed)

\* a quadrilateral accepted from its second segment on, over segments stored
\* out of cycle order
C20_Witness ==
    /\ last.op = "add_quadrilateral"
    /\ Passed = ScrambledSegments
    /\ last.args = <<3, 0, 2, 1, Blue>>
    /\ last.err = NoError
    /\ Appended

----------------------------------------------------------------------------
(* Properties of the segment reader. *)

IsSegmentRead == last.op = "LineSegmentCollection.read_from_file"

\* the stream given to the last read, and the length of the points list given
Stream == last.args[1]
PointCount == last.args[2]

\* the position of the first trailer line after the header, or one past the end
SegmentTrailerAt ==
    IF \E i \in 2..Len(Stream) : Stream[i] = TrailerSegments
    THEN CHOOSE i \in 2..Len(Stream) :
             Stream[i] = TrailerSegments /\ \A j \in 2..(i - 1) : Stream[j] # TrailerSegments
    ELSE Len(Stream) + 1

\* the positions of the lines between the header and the trailer
RecordLines == 2..(SegmentTrailerAt - 1)

IsRecord(line) == SegmentRecord(line).err = NoError

\* the line is a record with start or end outside [0, pointCount)
OutOfRange(line) ==
    /\ IsRecord(line)
    /\ \E k \in 1..2 :
           ~(0 <= SegmentRecord(line).vals[k] /\ SegmentRecord(line).vals[k] < PointCount)

\* C4: a read from a stream with the header whose lines before the trailer
\* hold a record with start or end outside [0, pointCount) fails, and fails
\* with the invalid-index error when no line before that record is malformed;
\* after a read that succeeds every segment has both indices in [0, pointCount).
C4_ReadRejectsInvalidIndex ==
    IsSegmentRead =>
        /\ (/\ Stream # <<>>
            /\ Head(Stream) = HeaderSegments
            /\ \E i \in RecordLines : OutOfRange(Stream[i]))
               => /\ last.err # NoError
                  /\ LET first == CHOOSE i \in RecordLines :
                                      /\ OutOfRange(Stream[i])
                                      /\ \A j \in RecordLines : j < i => ~OutOfRange(Stream[j])
                     IN  (\A j \in RecordLines : j < first => IsRecord(Stream[j]))
                             => last.err = InvalidPointIndex
        /\ last.err = NoError =>
               \A i \in 1..Len(segments) :
                   /\ 0 <= segments[i][1] /\ segments[i][1] < PointCount
                   /\ 0 <= segments[i][2] /\ segments[i][2] < PointCount

\* the record "5,0" read against three points, after a record in range
C4_Witness ==
    /\ IsSegmentRead
    /\ PointCount = 3
    /\ Stream = SegmentLines(<< <<0, 1>>, <<5, 0>> >>)
    /\ last.err = InvalidPointIndex
    /\ segments = << <<0, 1>> >>

----------------------------------------------------------------------------
(* Round trips. *)

\* C6: a point collection read back from the stream it was written to holds
\* the points it held when written: as many, equal in value, in the same
\* order; the list may be empty and may hold a point twice.
C6_PointRoundTrip ==
    last.op = "PointCollection.read_from_file" =>
        /\ last.err = NoError
        /\ Len(points) = Len(orig.points)
        /\ PointsEq(points, orig.points)
        /\ file = <<>>

\* three points read back, the first two the same point, one coordinate an
\* int and one negative with a fraction
C6_Witness ==
    /\ last.op = "PointCollection.read_from_file"
    /\ Len(orig.points) = 3
    /\ orig.points[1] = orig.points[2]
    /\ \E i \in 1..3 : orig.points[i][2].t = "int"
    /\ \E i \in 1..3 : orig.points[i][1].v < 0
    /\ last.args[1] = PointLines(orig.points)

\* C5: a mesh without dangling references, written as points, segments and
\* shapes to one stream and read back in that order into collections that
\* may hold other contents, is read without error and equals the mesh
\* written, element by element; each reader leaves the next section's
\* header as the next line of the stream.
C5_MeshRoundTrip ==
    /\ last.op = "PointCollection.read_from_file" =>
           /\ last.err = NoError
           /\ PointsEq(points, orig.points)
           /\ file = SegmentLines(orig.segments)
                         \o ShapeLines(orig.triangles, orig.quadrilaterals)
    /\ last.op = "LineSegmentCollection.read_from_file" =>
           /\ last.err = NoError
           /\ segments = orig.segments
           /\ file = ShapeLines(orig.triangles, orig.quadrilaterals)
    /\ last.op = "ShapeCollection.read_from_file" =>
           /\ last.err = NoError
           /\ PointsEq(points, orig.points)
           /\ segments = orig.segments
           /\ triangles = orig.triangles
           /\ quadrilaterals = orig.quadrilaterals
           /\ file = <<>>

\* the last reader has finished on a mesh with points, segments, triangles
\* and quadrilaterals
C5_Witness ==
    /\ last.op = "ShapeCollection.read_from_file"
    /\ Len(orig.points) >= 2
    /\ Len(orig.segments) >= 2
    /\ orig.triangles # <<>>
    /\ orig.quadrilaterals # <<>>
    /\ triangles = orig.triangles
    /\ quadrilaterals = orig.quadrilaterals

----------------------------------------------------------------------------
(* The order of the readers. *)

IsRead ==
    last.op \in {"PointCollection.read_from_file", "LineSegmentCollection.read_from_file",
                 "ShapeCollection.read_from_file"}

\* the header of the reader last called, and the error it raises on another line
OwnHeader ==
    CASE last.op = "PointCollection.read_from_file" -> HeaderPoints
      [] last.op = "LineSegmentCollection.read_from_file" -> HeaderSegments
      [] last.op = "ShapeCollection.read_from_file" -> HeaderShapes

OwnHeaderError ==
    CASE last.op = "PointCollection.read_from_file" -> MalformedHeaderPoints
      [] last.op = "LineSegmentCollection.read_from_file" -> MalformedHeaderSegments
      [] last.op = "ShapeCollection.read_from_file" -> MalformedHeaderShapes

\* the collection of the reader last called holds nothing
OwnStoreEmpty ==
    CASE last.op = "PointCollection.read_from_file" -> points = <<>>
      [] last.op = "LineSegmentCollection.read_from_file" -> segments = <<>>
      [] last.op = "ShapeCollection.read_from_file" ->
             triangles = <<>> /\ quadrilaterals = <<>>

\* the three sections of the mesh written, and the stream from each on
SectionPoints == PointLines(orig.points)
SectionSegments == SegmentLines(orig.segments)
SectionShapes == ShapeLines(orig.triangles, orig.quadrilaterals)

\* the reader whose turn it is when the stream left is s, "" when s is not
\* the stream at the start of a section
ReaderDue(s) ==
    IF s = SectionPoints \o SectionSegments \o SectionShapes
    THEN "PointCollection.read_from_file"
    ELSE IF s = SectionSegments \o SectionShapes
    THEN "LineSegmentCollection.read_from_file"
    ELSE IF s = SectionShapes THEN "ShapeCollection.read_from_file"
    ELSE ""

\* C13: on the stream of a mesh written as points, segments, shapes, a reader
\* whose first line is not its own header takes that one line off the stream,
\* raises its header error and holds no records; a reader called at the start
\* of a section that is not its own fails so, and the reader whose section it
\* is does not raise the header error.
C13_ReadersInOrder ==
    IsRead =>
        /\ (last.pre.file # <<>> /\ Head(last.pre.file) # OwnHeader)
               => /\ last.err = OwnHeaderError
                  /\ OwnStoreEmpty
                  /\ file = Tail(last.pre.file)
        /\ (ReaderDue(last.pre.file) # "" /\ ReaderDue(last.pre.file) # last.op)
               => /\ last.err = OwnHeaderError
                  /\ OwnStoreEmpty
        /\ ReaderDue(last.pre.file) = last.op => last.err = NoError

\* the shapes reader called after the points reader, on a mesh with segments
\* and shapes, into a collection that held shapes
C13_Witness ==
    /\ last.op = "ShapeCollection.read_from_file"
    /\ orig.points # <<>> /\ orig.segments # <<>> /\ orig.triangles # <<>>
    /\ last.pre.file = SectionSegments \o SectionShapes
    /\ last.pre.triangles # <<>>
    /\ last.err = MalformedHeaderShapes
    /\ triangles = <<>>

----------------------------------------------------------------------------
(* Properties of the shapes reader. *)

IsShapeRead == last.op = "ShapeCollection.read_from_file"

\* the stream given to the last read
ShapeStream == last.args[1]

IsSubHeader(line) == line \in {SubHeaderTriangles, SubHeaderQuadrilaterals}

\* the position of the first trailer line after the header, or one past the end
ShapeTrailerAt ==
    IF \E i \in 2..Len(ShapeStream) : ShapeStream[i] = TrailerShapes
    THEN CHOOSE i \in 2..Len(ShapeStream) :
             /\ ShapeStream[i] = TrailerShapes
             /\ \A j \in 2..(i - 1) : ShapeStream[j] # TrailerShapes
    ELSE Len(ShapeStream) + 1

\* the section the reader is in when it reads line i: the last sub-header
\* line before i, None when there is none
SectionAt(i) ==
    LET before == { j \in 2..(i - 1) : IsSubHeader(ShapeStream[j]) }
    IN  IF before = {} THEN "None"
        ELSE LET j == CHOOSE j \in before : \A h \in before : h <= j
             IN  IF ShapeStream[j] = SubHeaderTriangles THEN "InTriangles"
                 ELSE "InQuadrilaterals"

\* the positions of the data lines read in a section
DataLinesIn(section) ==
    { i \in 2..(ShapeTrailerAt - 1) : ~IsSubHeader(ShapeStream[i]) /\ SectionAt(i) = section }

\* the data lines that are not records of the section they are read in
Misplaced ==
    { i \in DataLinesIn("InTriangles") : ShapeRecord(ShapeStream[i], 3).err # NoError }
        \cup { i \in DataLinesIn("InQuadrilaterals") :
                   ShapeRecord(ShapeStream[i], 4).err # NoError }

\* the data lines of a section read before the first misplaced one, in order
ReadIn(section) ==
    LET S == { i \in DataLinesIn(section) : \A b \in Misplaced : i < b }
    IN  CHOOSE s \in [1..Cardinality(S) -> S] : \A a, b \in 1..Cardinality(S) : a < b => s[a] < s[b]

\* the triangle and the quadrilateral a record line stands for
TriangleOf(line) ==
    LET v == ShapeRecord(line, 3).vals IN <<v[1], v[2], v[3], <<v[4], v[5], v[6]>>>>

QuadrilateralOf(line) ==
    LET v == ShapeRecord(line, 4).vals IN <<v[1], v[2], v[3], v[4], <<v[5], v[6], v[7]>>>>

\* C15: the shapes reader starts in no section and changes section only at
\* the lines "Triangles:" and "Quadrilaterals:", in any order and any number
\* of times: the triangles read are the records read in the triangles
\* section, in order, the quadrilaterals those read in the quadrilaterals
\* section, and a line read in no section goes to neither; the read raises
\* exactly when a data line is not a record of the section it is read in.
C15_SectionStateMachine ==
    (IsShapeRead /\ ShapeStream # <<>> /\ Head(ShapeStream) = HeaderShapes) =>
        /\ triangles =
               [k \in 1..Len(ReadIn("InTriangles")) |->
                   TriangleOf(ShapeStream[ReadIn("InTriangles")[k]])]
        /\ quadrilaterals =
               [k \in 1..Len(ReadIn("InQuadrilaterals")) |->
                   QuadrilateralOf(ShapeStream[ReadIn("InQuadrilaterals")[k]])]
        /\ last.err = NoError <=> Misplaced = {}

\* a triangle record skipped in no section, then "Quadrilaterals:" with a
\* record of its own before "Triangles:", read into a collection that held shapes
C15_Witness ==
    /\ IsShapeRead
    /\ ShapeStream = <<HeaderShapes, ShapeLine(FileTriangle), SubHeaderQuadrilaterals,
                       ShapeLine(FileQuadrilateral), SubHeaderTriangles, TrailerShapes>>
    /\ last.pre.triangles # <<>>
    /\ triangles = <<>>
    /\ quadrilaterals = <<FileQuadrilateral>>
    /\ last.err = NoError

\* the shape names segments of segs, by indices in [0, len(segs)), that form a
\* closed cycle in the order given
ValidShape(shape, segs) ==
    LET k == Len(shape) - 1
    IN  /\ \A i \in 1..k : 0 <= shape[i] /\ shape[i] < Len(segs)
        /\ \A i \in 1..k : segs[shape[i] + 1][2] = segs[shape[(i % k) + 1] + 1][1]

AllShapesValid(segs) ==
    /\ \A i \in 1..Len(triangles) : ValidShape(triangles[i], segs)
    /\ \A i \in 1..Len(quadrilaterals) : ValidShape(quadrilaterals[i], segs)

\* C16: the shapes reader appends every record of a section without the
\* closure test and without a look at the segments, while add_triangle and
\* add_quadrilateral never leave in the collection a shape that names a
\* segment index that does not exist or whose segments do not close.
C16_OnlyReadLoadsInvalidShapes ==
    /\ (IsShapeRead /\ last.err = NoError /\ ShapeStream # <<>>) =>
           /\ Len(triangles) = Cardinality(DataLinesIn("InTriangles"))
           /\ Len(quadrilaterals) = Cardinality(DataLinesIn("InQuadrilaterals"))
    /\ IsAdd => AllShapesValid(Passed)

\* read from a stream: a triangle over the segments (0,1), (1,2), (2,3), which
\* do not close, or over segments that do not exist
C16_InvalidShapeRead ==
    /\ IsShapeRead
    /\ last.err = NoError
    /\ triangles # <<>>
    /\ ~AllShapesValid(segments)

----------------------------------------------------------------------------
(* Properties of the points reader. *)

IsPointRead == last.op = "PointCollection.read_from_file"

\* C18: a read from a points section that has the header and the record lines
\* of k points and ends there, with no trailer line, returns at the end of
\* the stream without an error, and the collection then holds those k
\* points, equal in value and in order.
C18_MissingTrailerReadsToEnd ==
    IsPointRead =>
        \A pts \in SeqsUpTo(PointPool, MaxFileRecs) :
            last.args[1] = Front(PointLines(pts))
                => /\ last.err = NoError
                   /\ Len(points) = Len(pts)
                   /\ PointsEq(points, pts)
                   /\ file = <<>>

\* two different points read from a section without the trailer line, into a
\* collection that held others
C18_Witness ==
    /\ IsPointRead
    /\ last.args[1] = Front(PointLines(<< <<F(-15), F(600)>>, <<F(80), I(12)>> >>))
    /\ last.pre.points # <<>>
    /\ Len(points) = 2
    /\ last.err = NoError

----------------------------------------------------------------------------
(* Failed reads. *)

\* the collection of the reader last called is not what it was before the call
OwnStoreChanged ==
    CASE last.op = "PointCollection.read_from_file" -> points # last.pre.points
      [] last.op = "LineSegmentCollection.read_from_file" -> segments # last.pre.segments
      [] last.op = "ShapeCollection.read_from_file" ->
             triangles # last.pre.triangles /\ quadrilaterals # last.pre.quadrilaterals

\* the first record of segs with an index outside [0, n), or one past the last
FirstDangling(segs, n) ==
    LET bad == { i \in 1..Len(segs) :
                   ~(0 <= segs[i][1] /\ segs[i][1] < n /\ 0 <= segs[i][2] /\ segs[i][2] < n) }
    IN  IF bad = {} THEN Len(segs) + 1 ELSE CHOOSE i \in bad : \A j \in bad : i <= j

Least(a, b) == IF a < b THEN a ELSE b

\* a points section with a line that is no record after k of its lines: the
\* read fails on that line and the k - 1 points before it stay
PointReadStopsAtJunk ==
    \A pts \in FailPointLists : \A k \in 1..(Len(pts) + 1) :
        last.args[1] = InsertLine(PointLines(pts), k, JunkLine)
            => /\ last.err = BadFloat
               /\ PointsEq(points, SubSeq(pts, 1, k - 1))

\* a segments section as written, or with a line that is no record after k
\* of its lines: the read fails at the first record with a dangling index or
\* at that line, whichever comes first, and the records before it stay
SegmentReadStopsAtFirstFault ==
    \A segs \in FailSegmentLists : \A damaged \in BOOLEAN : \A k \in 1..(Len(segs) + 1) :
        last.args[1] = (IF damaged THEN InsertLine(SegmentLines(segs), k, JunkLine)
                        ELSE SegmentLines(segs))
            => LET d == FirstDangling(segs, last.args[2])
                   stop == IF damaged THEN k ELSE Len(segs) + 1
               IN  /\ segments = SubSeq(segs, 1, Least(d, stop) - 1)
                   /\ last.err = (IF d < stop THEN InvalidPointIndex
                                  ELSE IF damaged THEN BadInt
                                  ELSE NoError)

\* a shapes section with a line that is no record after k >= 2 of its lines:
\* the read fails on that line and the shapes before it stay
ShapeReadStopsAtJunk ==
    \A tris \in FailTriangleLists : \A quads \in FailQuadrilateralLists :
        \A k \in 2..(Len(tris) + Len(quads) + 3) :
            last.args[1] = InsertLine(ShapeLines(tris, quads), k, JunkLine)
                => /\ last.err = BadInt
                   /\ triangles = SubSeq(tris, 1, Least(k - 2, Len(tris)))
                   /\ quadrilaterals = SubSeq(quads, 1, k - 3 - Len(tris))

\* C19: a read that fails does not leave the collection as it was.  Each
\* reader fails with its header error on a stream that does not start with
\* its header, and the collection is then empty; after a failure on a line
\* that is no record or on a dangling index the collection holds the records
\* read before that line; in both cases the earlier contents are gone, and
\* for the points the cached rectangle is unset.
C19_FailedReadLosesContents ==
    IsRead =>
        /\ (last.args[1] = <<>> \/ Head(last.args[1]) # OwnHeader)
               => last.err = OwnHeaderError
        /\ last.err = OwnHeaderError => OwnStoreEmpty
        /\ last.err # NoError => OwnStoreChanged
        /\ IsPointRead => box = NoneBox /\ PointReadStopsAtJunk
        /\ IsSegmentRead => SegmentReadStopsAtFirstFault
        /\ IsShapeRead => ShapeReadStopsAtJunk

\* a points read that failed on its second line, after one record, in a
\* collection that held three points and a cached rectangle
C19_Witness ==
    /\ IsPointRead
    /\ last.err = BadFloat
    /\ Len(last.pre.points) = 3
    /\ last.pre.box # NoneBox
    /\ Len(points) = 1
    /\ points[1] # last.pre.points[1]
    /\ box = NoneBox

====
